---- MODULE Spec2Model ----
(***************************************************************************)
(* A model of the comment-tree pipeline of the relationship-subreddit      *)
(* analyser: the sampling stage (scripts/1_generate_sample.py), the        *)
(* comment selector (scripts/2_process_sample.py) and the anonymiser       *)
(* (scripts/3_generate_html.py).                                           *)
(*                                                                         *)
(* Representation.  A submission's comment forest is a sequence of         *)
(* threads, one per top-level comment, in the order the forest yields      *)
(* them.  A thread carries the top-level comment's own fields and a table  *)
(* of its replies: reply j has parent rparent[j] < j (0 is the top-level   *)
(* comment itself), so the table is a finite tree and the children of a    *)
(* node, taken by ascending index, are in arrival order.  A comment is     *)
(* the pair <<t, k>>: thread t, reply k (k = 0: the top-level comment).    *)
(* A float ratio rounded to 3 decimals is the integer number of            *)
(* thousandths (0.25 is 250).  An absent author (Python None) is the       *)
(* empty string, which is no Reddit username.                              *)
(***************************************************************************)
EXTENDS Integers, Sequences, FiniteSets, TLC

VARIABLES
    submission,        \* selector: the comment forest fetched for the submission
    op,                \* selector: case.author_username
    pc,                \* selector: position in get_comment_rows
    comments,          \* selector: result of get_comments
    metrics,           \* selector: result of get_comment_metrics
    engaged_comments,  \* selector: first list returned by get_comment_rows
    top_comments,      \* selector: second list returned by get_comment_rows
    a_pc,              \* anonymiser: position in main / parse_case
    a_case,            \* anonymiser: the case file being parsed
    commenters,        \* anonymiser: parse_case's dict of username -> pseudonym
    counter,           \* anonymiser: parse_case's counter
    a_buckets,         \* anonymiser: the four comment lists of parse_case
    html,              \* anonymiser: what the template was rendered with
    a_walk,            \* anonymiser: where the traversal of lines 217-220 is
    updates,           \* sampler: the update submissions, each with its search results
    s_pc,              \* sampler: position in main
    s_i,               \* sampler: index of the update the loop is at
    sample,            \* sampler: the rows appended so far
    s_error,           \* sampler: the exception that ended main, if any
    sample_file,       \* sampler: the rows written to the sample file
    data,              \* selector batch: the items of the sample file
    b_pc,              \* selector batch: position in main
    b_sample,          \* selector batch: the SampleRows built from data
    b_i,               \* selector batch: index of the case the loop is at
    b_error,           \* selector batch: the exception that ended main, if any
    written            \* selector batch: the case files written so far

selVars == <<submission, op, pc, comments, metrics, engaged_comments, top_comments>>

anonVars == <<a_pc, a_case, commenters, counter, a_buckets, html, a_walk>>

sampVars == <<updates, s_pc, s_i, sample, s_error, sample_file>>

batchVars == <<data, b_pc, b_sample, b_i, b_error, written>>

vars == <<selVars, anonVars, sampVars, batchVars>>

-----------------------------------------------------------------------------
(* Program constants *)

DELETED == "[deleted]"
NoAuthor == ""
TopN == 5
SecPerDay == 86400

-----------------------------------------------------------------------------
(* Bounds of the model *)

MaxTop == 7
MaxSpecial == 2
MaxReplies == 4
MaxNodes == 3
MaxUpdates == 2
MaxBatch == 2

MaxInteract == 2

MaxNested == 3

MaxWalk == 3

Width == 45

-----------------------------------------------------------------------------
(* Generic sequence helpers *)

Range(s) == {s[i] : i \in DOMAIN s}

Take(s, n) == SubSeq(s, 1, IF Len(s) < n THEN Len(s) ELSE n)

\* an insertion that puts x before the elements of equal key
RECURSIVE InsertDescUnstable(_, _, _)
InsertDescUnstable(s, x, key) ==
    IF s = <<>> THEN <<x>>
    ELSE IF key[Head(s)] > key[x]
         THEN <<Head(s)>> \o InsertDescUnstable(Tail(s), x, key)
    ELSE <<x>> \o s

RECURSIVE InsertDesc(_, _, _)
InsertDesc(s, x, key) ==
    IF s = <<>> THEN <<x>>
    ELSE IF key[Head(s)] >= key[x] THEN <<Head(s)>> \o InsertDesc(Tail(s), x, key)
    ELSE <<x>> \o s

RECURSIVE SortedDescFrom(_, _, _)
SortedDescFrom(acc, s, key) ==
    IF s = <<>> THEN acc
    ELSE SortedDescFrom(InsertDesc(acc, Head(s), key), Tail(s), key)

\* sorted(s, key=..., reverse=True): descending, equal keys keep their order
SortedDesc(s, key) == SortedDescFrom(<<>>, s, key)

\* an insertion that puts x before the elements of equal key
RECURSIVE InsertAscUnstable(_, _, _)
InsertAscUnstable(s, x, key) ==
    IF s = <<>> THEN <<x>>
    ELSE IF key[Head(s)] < key[x] THEN <<Head(s)>> \o InsertAscUnstable(Tail(s), x, key)
    ELSE <<x>> \o s

RECURSIVE InsertAsc(_, _, _)
InsertAsc(s, x, key) ==
    IF s = <<>> THEN <<x>>
    ELSE IF key[Head(s)] <= key[x] THEN <<Head(s)>> \o InsertAsc(Tail(s), x, key)
    ELSE <<x>> \o s

RECURSIVE SortedAscFrom(_, _, _)
SortedAscFrom(acc, s, key) ==
    IF s = <<>> THEN acc
    ELSE SortedAscFrom(InsertAsc(acc, Head(s), key), Tail(s), key)

\* sorted(s, key=...): ascending, equal keys keep their order
SortedAsc(s, key) == SortedAscFrom(<<>>, s, key)

-----------------------------------------------------------------------------
(* The comment forest as PRAW presents it *)

TopLevel(sub) == [t \in 1..Len(sub) |-> <<t, 0>>]

Replies(sub, c) ==
    LET th == sub[c[1]]
    IN  SelectSeq([j \in 1..Len(th.rparent) |-> <<c[1], j>>],
                  LAMBDA r : th.rparent[r[2]] = c[2])

Id(sub, c) == <<sub[c[1]].id, c[2]>>

Author(sub, c) == IF c[2] = 0 THEN sub[c[1]].author ELSE sub[c[1]].rauthor[c[2]]

Body(sub, c) == IF c[2] = 0 THEN sub[c[1]].body ELSE sub[c[1]].rbody[c[2]]

Score(sub, c) == IF c[2] = 0 THEN sub[c[1]].score ELSE 1

CreatedUtc(sub, c) == sub[c[1]].created_utc + c[2]

\* datetime.fromtimestamp(t, tz=utc).strftime('%Y-%m-%d %H:%M:%S %Z'):
\* the date and the time of day, to the second
strftime(t) == [date |-> t \div SecPerDay, time |-> t % SecPerDay]

\* the text Reddit shows for a comment of a deleted account
BodyOf(a) == IF a = NoAuthor THEN DELETED ELSE "text"

\* parent tables of n nodes: every parent is 0 (the root) or an earlier node
ReplyTrees(n) == {p \in [1..n -> 0..(n - 1)] : \A j \in 1..n : p[j] < j}

\* a thread: a top-level comment by carol and the table of its replies
Thread(id, score, body, created, rparent, rauthor) ==
    [id |-> id, author |-> "carol", score |-> score, body |-> body,
     created_utc |-> created, rparent |-> rparent, rauthor |-> rauthor,
     rbody |-> [j \in DOMAIN rauthor |-> BodyOf(rauthor[j])]]

-----------------------------------------------------------------------------
(* scripts/1_generate_sample.py: count_replies_by_user *)

RECURSIVE count_replies_by_user(_, _, _)
count_replies_by_user(sub, cs, username) ==
    IF cs = <<>> THEN <<0, 0>>
    ELSE LET comment == Head(cs)
             own     == IF Author(sub, comment) # NoAuthor
                           /\ Author(sub, comment) = username THEN 1 ELSE 0
             below   == count_replies_by_user(sub, Replies(sub, comment), username)
             rest    == count_replies_by_user(sub, Tail(cs), username)
         IN  <<1 + below[1] + rest[1], own + below[2] + rest[2]>>

\* a ratio cut to 3 decimals instead of rounded
Round3Floor(num, den) == (1000 * num) \div den

\* round(num / den, 3) in thousandths, den > 0.  A tie (2000 * num an odd
\* multiple of den) needs den to be a multiple of 16.
Round3(num, den) ==
    LET q == (1000 * num) \div den
        r == (1000 * num) % den
    IN  IF 2 * r < den THEN q
        ELSE IF 2 * r > den THEN q + 1
        ELSE IF q % 2 = 0 THEN q ELSE q + 1

-----------------------------------------------------------------------------
(* scripts/2_process_sample.py *)

get_comments(sub) ==
    SortedDesc(TopLevel(sub), [c \in Range(TopLevel(sub)) |-> Score(sub, c)])

response_ratio(total_replies, total_replies_by_op) ==
    IF total_replies = 0 THEN 0
    ELSE Round3(total_replies_by_op, total_replies)

\* a metric that counts the comment itself with its replies
CommentMetricSelf(sub, comment, o) ==
    LET counts == count_replies_by_user(sub, <<comment>>, o)
    IN  [OP |-> o, comment |-> comment,
         OP_response_ratio |-> response_ratio(counts[1], counts[2])]

CommentMetric(sub, comment, o) ==
    LET counts == count_replies_by_user(sub, Replies(sub, comment), o)
    IN  [OP |-> o, comment |-> comment,
         OP_response_ratio |-> response_ratio(counts[1], counts[2])]

\* the metrics without the filter on deleted text
get_comment_metrics_unfiltered(sub, cs, o) ==
    LET ms == [i \in 1..Len(cs) |-> CommentMetric(sub, cs[i], o)]
    IN  SortedDesc(ms, [m \in Range(ms) |-> m.OP_response_ratio])

get_comment_metrics(sub, cs, o) ==
    LET ms   == [i \in 1..Len(cs) |-> CommentMetric(sub, cs[i], o)]
        kept == SelectSeq(ms, LAMBDA m : Body(sub, m.comment) # DELETED)
    IN  SortedDesc(kept, [m \in Range(kept) |-> m.OP_response_ratio])

RECURSIVE parse_replies(_, _)

\* a parse_replies that leaves out the replies with deleted text
parse_replies_without_deleted(sub, comment) ==
    LET rs == SelectSeq(Replies(sub, comment), LAMBDA r : Body(sub, r) # DELETED)
    IN  [i \in 1..Len(rs) |->
            [id |-> Id(sub, rs[i]),
             reply_username |-> Author(sub, rs[i]),
             posted |-> strftime(CreatedUtc(sub, rs[i])),
             text |-> Body(sub, rs[i]),
             replies |-> parse_replies(sub, rs[i])]]

parse_replies(sub, comment) ==
    LET rs == Replies(sub, comment)
    IN  [i \in 1..Len(rs) |->
            [id |-> Id(sub, rs[i]),
             reply_username |-> Author(sub, rs[i]),
             posted |-> strftime(CreatedUtc(sub, rs[i])),
             text |-> Body(sub, rs[i]),
             replies |-> parse_replies(sub, rs[i])]]

CommentRow(sub, m) ==
    [id |-> Id(sub, m.comment),
     comment_author |-> Author(sub, m.comment),
     num_replies |-> Len(Replies(sub, m.comment)),
     votes |-> Score(sub, m.comment),
     OP_response_ratio |-> m.OP_response_ratio,
     posted |-> strftime(CreatedUtc(sub, m.comment)),
     text |-> Body(sub, m.comment),
     replies |-> parse_replies(sub, m.comment)]

comments_with_top_score(sub, ms) ==
    LET zero == SelectSeq(ms, LAMBDA m : m.OP_response_ratio = 0)
    IN  Take(SortedDesc(zero, [m \in Range(zero) |-> Score(sub, m.comment)]), TopN)

comments_with_top_response_ratio(ms) ==
    LET pos == SelectSeq(ms, LAMBDA m : m.OP_response_ratio # 0)
    IN  SortedDesc(pos, [m \in Range(pos) |-> m.OP_response_ratio])

\* get_comment_rows returns (engaged_comments, top_comments)
get_comment_rows(sub, o) ==
    LET ms  == get_comment_metrics(sub, get_comments(sub), o)
        eng == comments_with_top_response_ratio(ms)
        top == comments_with_top_score(sub, ms)
    IN  <<[i \in 1..Len(eng) |-> CommentRow(sub, eng[i])],
          [i \in 1..Len(top) |-> CommentRow(sub, top[i])]>>

-----------------------------------------------------------------------------
(* The selector as a state machine: one call of get_comment_rows *)

\* line 134: get_comment_metrics(get_comments(submission), case.author_username)
GetCommentMetrics ==
    /\ pc = "get_comment_metrics"
    /\ comments' = get_comments(submission)
    /\ metrics' = get_comment_metrics(submission, get_comments(submission), op)
    /\ pc' = "select"
    /\ UNCHANGED <<submission, op, engaged_comments, top_comments>>
    /\ UNCHANGED <<anonVars, sampVars, batchVars>>

\* lines 136-174: the two selections and the rows built from them
GetCommentRows ==
    /\ pc = "select"
    /\ LET eng == comments_with_top_response_ratio(metrics)
           top == comments_with_top_score(submission, metrics)
       IN  /\ engaged_comments' = [i \in 1..Len(eng) |-> CommentRow(submission, eng[i])]
           /\ top_comments' = [i \in 1..Len(top) |-> CommentRow(submission, top[i])]
    /\ pc' = "returned"
    /\ UNCHANGED <<submission, op, comments, metrics>>
    /\ UNCHANGED <<anonVars, sampVars, batchVars>>

NextSelect == GetCommentMetrics \/ GetCommentRows

-----------------------------------------------------------------------------
(* scripts/3_generate_html.py *)

\* datetime.strptime(posted, "%Y-%m-%d %H:%M:%S UTC"), as seconds
strptime(posted) == posted.date * SecPerDay + posted.time

\* the loop over the comments without the sort
unsorted(cs) == cs

sort_comments_by_posted_time(cs) ==
    SortedAsc(cs, [c \in Range(cs) |-> strptime(c.posted)])

Commenter(n) == "commenter_" \o ToString(n)

AnonimisedAuthor(case_id) == "author_" \o ToString(case_id)

\* a dict that starts empty
NoCommenters(author, case_id) == [u \in {} |-> ""]

\* line 209: commenters = {author: anonimised_author}
SeedCommenters(author, case_id) == author :> AnonimisedAuthor(case_id)

\* anonimise_reply changes the reply in place and returns the variable
\* `reply`, which its loop over the children has rebound: obj is the reply
\* as changed, reply is the value returned.  anonimise_replies is the loop
\*     for reply in X.replies:
\*         reply, commenters, counter = anonimise_reply(reply, commenters, counter)
\* of anonimise_reply and anonimise_comment: objs are the list's elements as
\* changed, last is what `reply` is bound to after the loop (none if the
\* loop did not run).
RECURSIVE anonimise_reply(_, _, _), anonimise_replies(_, _, _)

\* the element one done, and the rest of the list after it
replies_joined(one, rest) ==
    [objs |-> <<one.obj>> \o rest.objs,
     last |-> IF rest.last = <<>> THEN <<one.reply>> ELSE rest.last,
     commenters |-> rest.commenters,
     counter |-> rest.counter]

\* the rest of the list takes the dict and the counter the element left
replies_after(one, rs) ==
    replies_joined(one, anonimise_replies(rs, one.commenters, one.counter))

anonimise_replies(rs, cm, n) ==
    IF rs = <<>>
    THEN [objs |-> <<>>, last |-> <<>>, commenters |-> cm, counter |-> n]
    ELSE replies_after(anonimise_reply(Head(rs), cm, n), Tail(rs))

\* lines 126-127 of anonimise_reply: return reply, commenters, counter
reply_returned(obj, loop) ==
    [obj |-> obj,
     reply |-> IF loop.last = <<>> THEN obj ELSE loop.last[1],
     commenters |-> loop.commenters,
     counter |-> loop.counter]

\* lines 122-125 of anonimise_reply: the alias is assigned, the loop has run
reply_anonimised(reply, alias, loop) ==
    reply_returned([reply EXCEPT !.reply_username = alias, !.replies = loop.objs], loop)

\* an anonimise_reply that looks up only the usernames that are present: a
\* reply of a deleted account gets a new alias each time
anonimise_reply_absent_unkeyed(reply, cm, n) ==
    LET known == reply.reply_username # NoAuthor /\ reply.reply_username \in DOMAIN cm
        alias == IF known THEN cm[reply.reply_username] ELSE Commenter(n)
        cm1   == IF known THEN cm ELSE cm @@ (reply.reply_username :> alias)
        n1    == IF known THEN n ELSE n + 1
    IN  reply_anonimised(reply, alias, anonimise_replies(reply.replies, cm1, n1))

anonimise_reply(reply, cm, n) ==
    LET known == reply.reply_username \in DOMAIN cm
        alias == IF known THEN cm[reply.reply_username] ELSE Commenter(n)
        cm1   == IF known THEN cm ELSE cm @@ (reply.reply_username :> alias)
        n1    == IF known THEN n ELSE n + 1
    IN  reply_anonimised(reply, alias, anonimise_replies(reply.replies, cm1, n1))

\* lines 147-150 of anonimise_comment: the alias is assigned, the loop has run
comment_anonimised(comment, alias, loop) ==
    [obj |-> [comment EXCEPT !.comment_author = alias, !.replies = loop.objs],
     last |-> loop.last,
     commenters |-> loop.commenters,
     counter |-> loop.counter]

\* lines 129-150 of anonimise_comment, up to its return
anonimise_comment_body(comment, cm, n) ==
    LET known == comment.comment_author \in DOMAIN cm
        alias == IF known THEN cm[comment.comment_author] ELSE Commenter(n)
        cm1   == IF known THEN cm ELSE cm @@ (comment.comment_author :> alias)
        n1    == IF known THEN n ELSE n + 1
    IN  comment_anonimised(comment, alias, anonimise_replies(comment.replies, cm1, n1))

\* the return of anonimise_comment; `reply` is the loop's variable
return_comment(done) ==
    [comment |-> done.obj, commenters |-> done.commenters, counter |-> done.counter]

return_reply(done) ==
    [comment |-> IF done.last = <<>> THEN done.obj ELSE done.last[1],
     commenters |-> done.commenters,
     counter |-> done.counter]

\* an anonimise_comment that ends as anonimise_reply does: return reply, ...
anonimise_comment_returning_reply(comment, cm, n) ==
    return_reply(anonimise_comment_body(comment, cm, n))

anonimise_comment(comment, cm, n) ==
    return_comment(anonimise_comment_body(comment, cm, n))

RECURSIVE anonimise_comments(_, _, _)

\* the comment one done, and the rest of the list after it
comments_joined(one, rest) ==
    [anon_comments |-> <<one.comment>> \o rest.anon_comments,
     counter |-> rest.counter,
     commenters |-> rest.commenters]

\* the rest of the list takes the dict and the counter the comment left
comments_after(one, cs) ==
    comments_joined(one, anonimise_comments(cs, one.counter, one.commenters))

anonimise_comments(cs, n, cm) ==
    IF cs = <<>>
    THEN [anon_comments |-> <<>>, counter |-> n, commenters |-> cm]
    ELSE comments_after(anonimise_comment(Head(cs), cm, n), Tail(cs))

-----------------------------------------------------------------------------
(* The case files the anonymiser reads: at most MaxNodes comments and       *)
(* replies in the four buckets together.  Node i has parent par[i] < i (0:  *)
(* a top-level comment); the top-level comments lie in the buckets in       *)
(* index order, which is the order the selector wrote them in.  A comment   *)
(* alone in its bucket has the earlier of the two posted times: its time    *)
(* is compared with no other.                                               *)

AnonAuthors == {"alice", "bob", NoAuthor}

PostedTimes == {86399, 86400}

Buckets == 1..4

CaseIds == {2}

Kids(par, i) == SelectSeq([j \in 1..Len(par) |-> j], LAMBDA j : par[j] = i)

RECURSIVE MkReply(_, _, _)
MkReply(par, au, j) ==
    [id |-> j,
     reply_username |-> au[j],
     posted |-> strftime(86400 + j),
     text |-> BodyOf(au[j]),
     replies |-> [k \in 1..Len(Kids(par, j)) |-> MkReply(par, au, Kids(par, j)[k])]]

MkRow(par, au, created, b, i) ==
    [id |-> i,
     comment_author |-> au[i],
     num_replies |-> Len(Kids(par, i)),
     votes |-> i,
     OP_response_ratio |-> IF b \in {1, 3} THEN 500 ELSE 0,
     posted |-> strftime(created),
     text |-> "text",
     replies |-> [k \in 1..Len(Kids(par, i)) |-> MkReply(par, au, Kids(par, i)[k])]]

MkCase(case_id, par, au, inb, created) ==
    [case_id |-> case_id,
     submission_author |-> "alice",
     buckets |-> [b \in Buckets |->
                    LET tops == SelectSeq(Kids(par, 0), LAMBDA i : inb[i] = b)
                    IN  [k \in 1..Len(tops) |->
                            MkRow(par, au, created[tops[k]], b, tops[k])]]]

NoCase == [case_id |-> 0, submission_author |-> "", buckets |-> <<>>]

NoHtml == [case_id |-> 0, submission_author |-> "", comments |-> <<>>]

\* the traversal not followed node by node
NoWalk == [todo |-> <<>>, done |-> <<>>, commenters |-> <<>>, counter |-> 0]

AnonIdle ==
    /\ a_pc = "idle"
    /\ a_case = NoCase
    /\ commenters = <<>>
    /\ counter = 0
    /\ a_buckets = <<>>
    /\ html = NoHtml
    /\ a_walk = NoWalk

\* lines 199-215: load the file, seed the dict and the counter, parse the lists
ParseCase ==
    /\ a_pc = "idle"
    /\ \E n \in 0..MaxNodes, case_id \in CaseIds :
         \E par \in ReplyTrees(n), au \in [1..n -> AnonAuthors] :
            \E inb \in [{i \in 1..n : par[i] = 0} -> Buckets],
               created \in [{i \in 1..n : par[i] = 0} -> PostedTimes] :
               /\ \A i, j \in DOMAIN inb : i < j => inb[i] <= inb[j]
               /\ \A i \in DOMAIN inb :
                     (\A j \in DOMAIN inb : j # i => inb[j] # inb[i])
                        => created[i] = 86399
               /\ a_case' = MkCase(case_id, par, au, inb, created)
    /\ commenters' = SeedCommenters(a_case'.submission_author, a_case'.case_id)
    /\ counter' = 1
    /\ a_buckets' = a_case'.buckets
    /\ a_pc' = "anonimise"
    /\ UNCHANGED <<html, a_walk>>
    /\ UNCHANGED <<selVars, sampVars, batchVars>>

\* one of lines 217-220: the list b replaced, the counter and the dict kept
bucket_anonimised(st, b, r) ==
    [buckets |-> [st.buckets EXCEPT ![b] = r.anon_comments],
     counter |-> r.counter,
     commenters |-> r.commenters]

\* one of lines 217-220: anonimise_comments(sort_comments_by_posted_time(...), ...)
anonimise_bucket(st, b) ==
    bucket_anonimised(st, b,
        anonimise_comments(sort_comments_by_posted_time(st.buckets[b]),
                           st.counter, st.commenters))

\* lines 217-220: the four lists in turn, the counter and the dict handed on
AnonimiseComments ==
    /\ a_pc = "anonimise"
    /\ a_walk.todo = <<>>
    /\ \E s1 \in {anonimise_bucket([buckets |-> a_buckets, counter |-> counter,
                                     commenters |-> commenters], 1)} :
         \E s2 \in {anonimise_bucket(s1, 2)} :
            \E s3 \in {anonimise_bucket(s2, 3)} :
               \E s4 \in {anonimise_bucket(s3, 4)} :
                  /\ a_buckets' = s4.buckets
                  /\ counter' = s4.counter
                  /\ commenters' = s4.commenters
    /\ a_pc' = "render"
    /\ UNCHANGED <<a_case, html, a_walk>>
    /\ UNCHANGED <<selVars, sampVars, batchVars>>

\* lines 222-248: render the template and save the page
Render ==
    /\ a_pc = "render"
    /\ html' = [case_id |-> a_case.case_id,
                submission_author |-> AnonimisedAuthor(a_case.case_id),
                comments |-> a_buckets]
    /\ a_pc' = "saved"
    /\ UNCHANGED <<a_case, commenters, counter, a_buckets, a_walk>>
    /\ UNCHANGED <<selVars, sampVars, batchVars>>

\* parse_case returns to the loop of main (lines 256-260); its locals are gone
Return ==
    /\ a_pc = "saved"
    /\ a_pc' = "idle"
    /\ a_case' = NoCase
    /\ commenters' = <<>>
    /\ counter' = 0
    /\ a_buckets' = <<>>
    /\ html' = NoHtml
    /\ a_walk' = NoWalk
    /\ UNCHANGED <<selVars, sampVars, batchVars>>

NextAnon == ParseCase \/ AnonimiseComments \/ Render \/ Return

SelectIdle ==
    /\ submission = <<>>
    /\ op = ""
    /\ pc = "idle"
    /\ comments = <<>>
    /\ metrics = <<>>
    /\ engaged_comments = <<>>
    /\ top_comments = <<>>

SampIdle ==
    /\ updates = <<>>
    /\ s_pc = "idle"
    /\ s_i = 0
    /\ sample = <<>>
    /\ s_error = ""
    /\ sample_file = <<>>

BatchIdle ==
    /\ data = <<>>
    /\ b_pc = "idle"
    /\ b_sample = <<>>
    /\ b_i = 0
    /\ b_error = ""
    /\ written = <<>>

InitAnon == AnonIdle /\ SelectIdle /\ SampIdle /\ BatchIdle

SpecAnon == InitAnon /\ [][NextAnon]_vars

SelectStart ==
    /\ pc = "get_comment_metrics"
    /\ comments = <<>>
    /\ metrics = <<>>
    /\ engaged_comments = <<>>
    /\ top_comments = <<>>

-----------------------------------------------------------------------------
(* Inputs of the worked example: OP alice; C1 score 50 with 2 replies, none *)
(* by alice; C2 score 10 with 3 replies in its subtree, one by alice; C3    *)
(* deleted, score 100.  The shape of the reply trees, the other authors and *)
(* the arrival order of the three comments are left open.                   *)

Others == {"bob", NoAuthor}

Perms3 == {<<1, 2, 3>>, <<1, 3, 2>>, <<2, 1, 3>>, <<2, 3, 1>>, <<3, 1, 2>>, <<3, 2, 1>>}

InitExample ==
    /\ op = "alice"
    /\ \E p1 \in ReplyTrees(2), a1 \in [1..2 -> Others],
          p2 \in ReplyTrees(3), a2 \in [1..3 -> Others \cup {"alice"}],
          order \in Perms3 :
          /\ Cardinality({j \in 1..3 : a2[j] = "alice"}) = 1
          /\ LET three == << Thread("C1", 50, "text", 86390, p1, a1),
                             Thread("C2", 10, "text", 86395, p2, a2),
                             Thread("C3", 100, DELETED, 86400, <<>>, <<>>) >>
             IN  submission = [i \in 1..3 |-> three[order[i]]]
    /\ SelectStart
    /\ AnonIdle /\ SampIdle /\ BatchIdle

SpecExample == InitExample /\ [][NextSelect]_vars

-----------------------------------------------------------------------------
(* Inputs for the ratio: the OP is alice or bob; one top-level comment over *)
(* every reply tree of at most MaxReplies replies, each reply by alice, by  *)
(* bob or by a deleted account.                                             *)

Repliers == {"alice", "bob", NoAuthor}

InitRatio ==
    /\ op \in {"alice", "bob"}
    /\ \E n \in 0..MaxReplies :
          \E p \in ReplyTrees(n), a \in [1..n -> Repliers] :
             submission = << Thread(1, 1, "text", 86390, p, a) >>
    /\ SelectStart
    /\ AnonIdle /\ SampIdle /\ BatchIdle

SpecRatio == InitRatio /\ [][NextSelect]_vars

-----------------------------------------------------------------------------
(* Inputs for the buckets: up to MaxTop top-level comments, each of one of  *)
(* three kinds: no replies; a reply by someone else with the OP answering   *)
(* below it; deleted text.  At most MaxSpecial of them are of the last two  *)
(* kinds; the comments of the first kind take every score of Scores.        *)

Scores == {1, 2}

Kinds == {"none", "op", "deleted"}

KindThread(t, score, kind) ==
    IF kind = "op"
    THEN Thread(t, score, "text", 86390 + 3 * t, <<0, 1>>, <<"bob", "alice">>)
    ELSE Thread(t, score, IF kind = "deleted" THEN DELETED ELSE "text",
                86390 + 3 * t, <<>>, <<>>)

\* a deleted comment is the highest voted one, a comment the OP replied
\* under the lowest voted one
SpecialScore(kind) == IF kind = "deleted" THEN 2 ELSE 1

InitSelect ==
    /\ op = "alice"
    /\ \E n \in 0..MaxTop :
          \E special \in {S \in SUBSET (1..n) : Cardinality(S) <= MaxSpecial} :
             \E score \in [(1..n) \ special -> Scores], kind \in [special -> Kinds \ {"none"}] :
                submission = [t \in 1..n |->
                                 IF t \in special
                                 THEN KindThread(t, SpecialScore(kind[t]), kind[t])
                                 ELSE KindThread(t, score[t], "none")]
    /\ SelectStart
    /\ AnonIdle /\ SampIdle /\ BatchIdle

SpecSelect == InitSelect /\ [][NextSelect]_vars

-----------------------------------------------------------------------------
(* Inputs for the OP's interaction: up to MaxInteract top-level comments of *)
(* the three kinds, or a large comment, alone or below a comment without    *)
(* replies.  The large comment has Width replies, each with Width replies   *)
(* of its own, all by bob but one by the OP: the first reply or the last.   *)

LargeThread(t, score, at) ==
    Thread(t, score, "text", 86390 + 3 * t,
           [j \in 1..(Width + Width * Width) |->
               IF j <= Width THEN 0 ELSE ((j - Width - 1) \div Width) + 1],
           [j \in 1..(Width + Width * Width) |-> IF j = at THEN "alice" ELSE "bob"])

InitInteract ==
    /\ op = "alice"
    /\ \/ \E n \in 0..MaxInteract :
             \E score \in [1..n -> Scores], kind \in [1..n -> Kinds] :
                submission = [t \in 1..n |-> KindThread(t, score[t], kind[t])]
       \/ \E at \in {1, Width + Width * Width} :
             \/ submission = <<LargeThread(1, 1, at)>>
             \/ submission = <<KindThread(1, 2, "none"), LargeThread(2, 1, at)>>
    /\ SelectStart
    /\ AnonIdle /\ SampIdle /\ BatchIdle

SpecInteract == InitInteract /\ [][NextSelect]_vars

-----------------------------------------------------------------------------
(* Inputs for the nested replies: one top-level comment with text over      *)
(* every reply tree of at most MaxNested replies; each reply is by alice    *)
(* (the OP), by bob or by a deleted account, and its text is the deleted    *)
(* text or not, whoever its author is.                                      *)

Texts == {"text", DELETED}

InitNested ==
    /\ op = "alice"
    /\ \E n \in 0..MaxNested :
          \E p \in ReplyTrees(n), a \in [1..n -> Repliers], b \in [1..n -> Texts] :
             submission = << [Thread(1, 1, "text", 86390, p, a) EXCEPT !.rbody = b] >>
    /\ SelectStart
    /\ AnonIdle /\ SampIdle /\ BatchIdle

SpecNested == InitNested /\ [][NextSelect]_vars

-----------------------------------------------------------------------------
(* scripts/1_generate_sample.py: main *)

\* CommentForest.list(): every comment of the forest, breadth first
RECURSIVE CommentsList(_, _)
CommentsList(sub, queue) ==
    IF queue = <<>> THEN <<>>
    ELSE <<Head(queue)>> \o CommentsList(sub, Tail(queue) \o Replies(sub, Head(queue)))

\* the result of a call: the value returned, or the exception raised
Returns(v) == [raised |-> "", value |-> v]

Raises(e) == [raised |-> e, value |-> 0]

\* a submission is [id, created_utc, author, comments]
author_response_ratio(s) ==
    IF s.author = NoAuthor THEN Raises("AttributeError")
    ELSE LET counts == count_replies_by_user(s.comments,
                           CommentsList(s.comments, TopLevel(s.comments)), s.author)
         IN  IF counts[1] = 0 THEN Raises("ZeroDivisionError")
             ELSE Returns(Round3(counts[2], counts[1]))

\* min(found, key=created_utc): the first of the earliest
get_submission_from_title(found) ==
    IF found = <<>> THEN Raises("ValueError")
    ELSE Returns(found[CHOOSE i \in DOMAIN found :
                    /\ \A j \in DOMAIN found : found[i].created_utc <= found[j].created_utc
                    /\ \A j \in 1..(i - 1) : found[j].created_utc > found[i].created_utc])

\* lines 120-149: one turn of the loop over the updates
ProcessUpdate ==
    /\ s_pc = "loop"
    /\ s_i <= Len(updates)
    /\ LET u       == updates[s_i]
           found   == get_submission_from_title(u.found)
           o       == found.value
           o_ratio == author_response_ratio(o)
           u_ratio == author_response_ratio(u.submission)
           failed  == IF found.raised # "" THEN found.raised
                      ELSE IF o_ratio.raised # "" THEN o_ratio.raised
                      ELSE u_ratio.raised
       IN  IF failed # ""
           THEN /\ s_pc' = "raised"
                /\ s_error' = failed
                /\ UNCHANGED <<s_i, sample>>
           ELSE /\ sample' = Append(sample,
                                [case_id |-> s_i,
                                 original_id |-> o.id,
                                 update_id |-> u.submission.id,
                                 author_username |-> u.submission.author,
                                 orignal_author_response_ratio |-> o_ratio.value,
                                 update_author_response_ratio |-> u_ratio.value])
                /\ s_i' = s_i + 1
                /\ UNCHANGED <<s_pc, s_error>>
    /\ UNCHANGED <<updates, sample_file>>
    /\ UNCHANGED <<selVars, anonVars, batchVars>>

\* lines 151-156: the loop is over, the rows are written
WriteSample ==
    /\ s_pc = "loop"
    /\ s_i > Len(updates)
    /\ sample_file' = sample
    /\ s_pc' = "written"
    /\ UNCHANGED <<updates, s_i, sample, s_error>>
    /\ UNCHANGED <<selVars, anonVars, batchVars>>

NextSample == ProcessUpdate \/ WriteSample

\* The update submissions: each has an author and a forest that is empty or
\* not; its title search finds nothing, one original, or a later submission
\* and the original.
Forests == {<<>>, <<Thread(1, 1, "text", 86390, <<0, 1>>, <<"bob", "alice">>)>>}

Originals ==
    {[id |-> "o", created_utc |-> 10, author |-> a, comments |-> f] :
        a \in {"alice", NoAuthor}, f \in Forests}

Later == [id |-> "x", created_utc |-> 20, author |-> NoAuthor, comments |-> <<>>]

Found == {<<>>} \cup {<<o>> : o \in Originals} \cup {<<Later, o>> : o \in Originals}

Updates ==
    {[submission |-> [id |-> "u", created_utc |-> 30, author |-> "alice", comments |-> f],
      found |-> fd] : f \in Forests, fd \in Found}

InitSample ==
    /\ \E n \in 0..MaxUpdates : updates \in [1..n -> Updates]
    /\ s_pc = "loop"
    /\ s_i = 1
    /\ sample = <<>>
    /\ s_error = ""
    /\ sample_file = <<>>
    /\ SelectIdle /\ AnonIdle /\ BatchIdle

SpecSample == InitSample /\ [][NextSample]_vars

-----------------------------------------------------------------------------
(* scripts/2_process_sample.py: main *)

\* model.py lines 18-35: the fields of SampleRow, none with a default
SampleRowFields ==
    {"case_id", "original_id", "update_id", "original_title", "update_title",
     "author_username", "original_text", "update_text", "original_num_comments",
     "update_num_comments", "original_votes", "update_votes",
     "original_upvote_ratio", "update_upvote_ratio",
     "orignal_author_response_ratio", "update_author_response_ratio",
     "original_url", "update_url"}

\* SampleRow(**item): an item is [case_id, author_username, present], present
\* being the keys it has
SampleRow(item) ==
    IF SampleRowFields \subseteq item.present
    THEN Returns([case_id |-> item.case_id, author_username |-> item.author_username])
    ELSE Raises("ValidationError")

\* line 183: sample = [SampleRow(**item) for item in data]
LoadSample ==
    /\ b_pc = "load"
    /\ IF \E k \in DOMAIN data : SampleRow(data[k]).raised # ""
       THEN /\ b_pc' = "raised"
            /\ b_error' = "ValidationError"
            /\ UNCHANGED <<b_sample, b_i>>
       ELSE /\ b_sample' = [k \in DOMAIN data |-> SampleRow(data[k]).value]
            /\ b_i' = 1
            /\ b_pc' = "loop"
            /\ UNCHANGED b_error
    /\ UNCHANGED <<data, written>>
    /\ UNCHANGED <<selVars, anonVars, sampVars>>

\* lines 186-224: one case: fetch the two submissions, select, write the file
ProcessCase ==
    /\ b_pc = "loop"
    /\ b_i <= Len(b_sample)
    /\ \E original \in Forests, update \in Forests :
          LET case == b_sample[b_i]
              o    == get_comment_rows(original, case.author_username)
              u    == get_comment_rows(update, case.author_username)
          IN  written' = Append(written,
                            [case_id |-> case.case_id,
                             submission_author |-> case.author_username,
                             original_comments_most_engaged |-> o[1],
                             original_comments_highest_voted |-> o[2],
                             update_comments_most_engaged |-> u[1],
                             update_comments_highest_voted |-> u[2]])
    /\ b_i' = b_i + 1
    /\ UNCHANGED <<data, b_pc, b_sample, b_error>>
    /\ UNCHANGED <<selVars, anonVars, sampVars>>

\* the loop is over
Finish ==
    /\ b_pc = "loop"
    /\ b_i > Len(b_sample)
    /\ b_pc' = "done"
    /\ UNCHANGED <<data, b_sample, b_i, b_error, written>>
    /\ UNCHANGED <<selVars, anonVars, sampVars>>

NextBatch == LoadSample \/ ProcessCase \/ Finish

\* The sample files: each item is complete or lacks one field.
Items(k) ==
    {[case_id |-> k, author_username |-> "alice", present |-> SampleRowFields \ m] :
        m \in {{}} \cup {{f} : f \in SampleRowFields}}

InitBatch ==
    /\ \E n \in 0..MaxBatch :
          \E d \in [1..n -> UNION {Items(k) : k \in 1..n}] :
             /\ \A k \in 1..n : d[k].case_id = k
             /\ data = d
    /\ b_pc = "load"
    /\ b_sample = <<>>
    /\ b_i = 0
    /\ b_error = ""
    /\ written = <<>>
    /\ SelectIdle /\ AnonIdle /\ SampIdle

SpecBatch == InitBatch /\ [][NextBatch]_vars

-----------------------------------------------------------------------------
(* What the claims are stated over.  Every reply of a thread's table is a   *)
(* descendant of the thread's top-level comment, so the counts of a thread  *)
(* are read off the table without walking the tree.                         *)

Threads == 1..Len(submission)

TotalBelow(t) == Len(submission[t].rparent)

ByOpBelow(t) ==
    Cardinality({j \in 1..TotalBelow(t) :
                    submission[t].rauthor[j] # NoAuthor /\ submission[t].rauthor[j] = op})

Kept(t) == submission[t].body # DELETED

\* x is matching/total to the nearest thousandth
Nearest(x, matching, total) ==
    LET d == 1000 * matching - x * total
    IN  2 * (IF d < 0 THEN -d ELSE d) <= total

\* the thread's ratio is 0.0: it has no descendants, or 0 is the nearest thousandth
ZeroRatio(t) == TotalBelow(t) = 0 \/ Nearest(0, ByOpBelow(t), TotalBelow(t))

RowIds(rows) == [i \in DOMAIN rows |-> rows[i].id]

ThreadOf(id) == CHOOSE t \in Threads : submission[t].id = id[1]

Returned == pc = "returned"

-----------------------------------------------------------------------------
(* C1 *)

\* C1 as stated: in the worked example highestVoted is [C1] with ratio 0.0,
\* mostEngaged is [C2] with ratio 0.25 (1 of 4, C2 itself counted), and C3
\* is in neither bucket.
C1_ExampleAsStated ==
    Returned =>
        /\ RowIds(top_comments) = << <<"C1", 0>> >>
        /\ top_comments[1].OP_response_ratio = 0
        /\ RowIds(engaged_comments) = << <<"C2", 0>> >>
        /\ engaged_comments[1].OP_response_ratio = 250

\* C1 amended: in the worked example highestVoted is [C1] with ratio 0.0,
\* mostEngaged is [C2] with ratio 0.333 (1 of the 3 replies below C2; C2
\* itself is not counted), and C3 is in neither bucket.
C1_Example ==
    Returned =>
        /\ RowIds(top_comments) = << <<"C1", 0>> >>
        /\ top_comments[1].OP_response_ratio = 0
        /\ RowIds(engaged_comments) = << <<"C2", 0>> >>
        /\ engaged_comments[1].OP_response_ratio = 333
        /\ <<"C3", 0>> \notin Range(RowIds(top_comments)) \cup Range(RowIds(engaged_comments))

C1_Witness ==
    /\ Returned
    /\ Len(submission) = 3
    /\ submission[1].id = "C3"
    /\ Len(engaged_comments) = 1
    /\ engaged_comments[1].num_replies = 1

-----------------------------------------------------------------------------
(* C2 *)

\* C2: the ratio of every top-level comment is within [0.0, 1.0], is
\* matching/total to the nearest thousandth when the comment has descendants,
\* and is 0.0 when it has none.
C2_RatioRange ==
    pc # "get_comment_metrics" =>
        /\ Len(metrics) = Cardinality({t \in Threads : Kept(t)})
        /\ \A i \in DOMAIN metrics :
              LET t == metrics[i].comment[1]
                  x == metrics[i].OP_response_ratio
              IN  /\ x \in 0..1000
                  /\ TotalBelow(t) > 0 => Nearest(x, ByOpBelow(t), TotalBelow(t))
                  /\ TotalBelow(t) = 0 => x = 0

C2_Witness ==
    /\ Returned
    /\ \E i \in DOMAIN metrics :
          /\ metrics[i].OP_response_ratio = 667
          /\ TotalBelow(metrics[i].comment[1]) = 3

-----------------------------------------------------------------------------
(* C3 *)

\* C3: the buckets share no comment, hold no comment with deleted text,
\* highestVoted has at most 5 entries all of ratio 0.0, and mostEngaged is
\* exactly the non-deleted top-level comments of ratio > 0.
C3_Buckets ==
    Returned =>
        LET topIds == Range(RowIds(top_comments))
            engIds == Range(RowIds(engaged_comments))
        IN  /\ topIds \cap engIds = {}
            /\ \A i \in DOMAIN top_comments : top_comments[i].text # DELETED
            /\ \A i \in DOMAIN engaged_comments : engaged_comments[i].text # DELETED
            /\ Len(top_comments) <= 5
            /\ \A i \in DOMAIN top_comments : top_comments[i].OP_response_ratio = 0
            /\ engIds = {<<submission[t].id, 0>> : t \in {u \in Threads : Kept(u) /\ ~ZeroRatio(u)}}
            /\ Len(engaged_comments) = Cardinality({u \in Threads : Kept(u) /\ ~ZeroRatio(u)})

C3_Witness ==
    /\ Returned
    /\ Len(top_comments) = 5
    /\ Len(engaged_comments) = 1
    /\ \E t \in Threads : ~Kept(t)

-----------------------------------------------------------------------------
(* C10 *)

ZeroKept == {t \in Threads : Kept(t) /\ ZeroRatio(t)}

\* a comes before b: higher score, or equal score and earlier arrival
Before(a, b) ==
    \/ submission[a].score > submission[b].score
    \/ submission[a].score = submission[b].score /\ a < b

RankOf(t) == 1 + Cardinality({u \in ZeroKept : Before(u, t)})

\* C10: highestVoted is the first 5 (or all) of the non-deleted zero-ratio
\* top-level comments by score descending, equal scores in arrival order.
C10_HighestVoted ==
    Returned =>
        /\ Len(top_comments) = IF Cardinality(ZeroKept) < 5 THEN Cardinality(ZeroKept) ELSE 5
        /\ \A i \in DOMAIN top_comments :
              LET t == ThreadOf(top_comments[i].id)
              IN  t \in ZeroKept /\ RankOf(t) = i

\* the bucket is cut at 5 between two comments of equal score, and a comment
\* of higher score arrived after one of lower score
C10_Witness ==
    /\ Returned
    /\ Len(top_comments) = 5
    /\ \E t \in ZeroKept :
          /\ RankOf(t) = 6
          /\ submission[t].score = top_comments[5].votes
    /\ \E a, b \in ZeroKept : a < b /\ submission[a].score < submission[b].score

-----------------------------------------------------------------------------
(* What the anonymiser's claims are stated over: the nodes of the case      *)
(* file and of the rendered page, each with its id and its author.          *)

RECURSIVE NodesOfReply(_), NodesOfReplies(_)

NodesOfReplies(rs) ==
    IF rs = <<>> THEN <<>> ELSE NodesOfReply(Head(rs)) \o NodesOfReplies(Tail(rs))

NodesOfReply(r) ==
    <<[id |-> r.id, author |-> r.reply_username]>> \o NodesOfReplies(r.replies)

\* a tree in pre-order; a top-level entry that is a reply is read as one
NodesOfRow(c) ==
    IF "comment_author" \in DOMAIN c
    THEN <<[id |-> c.id, author |-> c.comment_author]>> \o NodesOfReplies(c.replies)
    ELSE NodesOfReply(c)

RECURSIVE NodesOfRows(_)
NodesOfRows(cs) ==
    IF cs = <<>> THEN <<>> ELSE NodesOfRow(Head(cs)) \o NodesOfRows(Tail(cs))

\* p is earlier than q, read off the printed date and time
Earlier(p, q) == p.date < q.date \/ (p.date = q.date /\ p.time < q.time)

\* the list by posted time ascending, equal times in the list's order
ByPosted(cs) ==
    LET rank(j) == 1 + Cardinality({k \in DOMAIN cs :
                          \/ Earlier(cs[k].posted, cs[j].posted)
                          \/ cs[k].posted = cs[j].posted /\ k < j})
    IN  [i \in DOMAIN cs |-> cs[CHOOSE j \in DOMAIN cs : rank(j) = i]]

Saved == a_pc = "saved"

\* the nodes of the file in the order of the traversal the claims describe
RealSeq ==
    NodesOfRows(ByPosted(a_case.buckets[1])) \o NodesOfRows(ByPosted(a_case.buckets[2]))
    \o NodesOfRows(ByPosted(a_case.buckets[3])) \o NodesOfRows(ByPosted(a_case.buckets[4]))

\* the nodes of the page
PageSeq ==
    NodesOfRows(html.comments[1]) \o NodesOfRows(html.comments[2])
    \o NodesOfRows(html.comments[3]) \o NodesOfRows(html.comments[4])

\* the author of the node id among the nodes ns
AuthorIn(ns, id) == (CHOOSE x \in Range(ns) : x.id = id).author

Aliases == {Commenter(k) : k \in 1..(MaxNodes + 1)}

-----------------------------------------------------------------------------
(* C4 *)

\* C4: in the page of a case, two nodes with the same real author carry the
\* same pseudonym, and every node of the submission author carries
\* author_<caseId>, never a commenter_<n>.
C4_OnePseudonym ==
    Saved =>
        LET real == RealSeq
            page == PageSeq
        IN  /\ {x.id : x \in Range(page)} = {x.id : x \in Range(real)}
            /\ \A x, y \in Range(page) :
                  AuthorIn(real, x.id) = AuthorIn(real, y.id) => x.author = y.author
            /\ \A x \in Range(page) :
                  AuthorIn(real, x.id) = a_case.submission_author =>
                     /\ x.author = AnonimisedAuthor(a_case.case_id)
                     /\ x.author \notin Aliases

\* the author replies in one bucket and another user is in two buckets
C4_Witness ==
    /\ Saved
    /\ \E b \in Buckets : \E i \in DOMAIN a_case.buckets[b] :
          /\ a_case.buckets[b][i].replies # <<>>
          /\ a_case.buckets[b][i].replies[1].reply_username = a_case.submission_author
    /\ \E b1, b2 \in Buckets :
          /\ b1 < b2
          /\ a_case.buckets[b1] # <<>> /\ a_case.buckets[b2] # <<>>
          /\ a_case.buckets[b1][1].comment_author = "bob"
          /\ a_case.buckets[b2][1].comment_author = "bob"

-----------------------------------------------------------------------------
(* C5 *)

\* a node without its author: its other fields and its children, in order
RECURSIVE Skeleton(_)
Skeleton(x) ==
    [fields  |-> [f \in DOMAIN x \ {"comment_author", "reply_username", "replies"} |-> x[f]],
     replies |-> [i \in DOMAIN x.replies |-> Skeleton(x.replies[i])]]

\* C5: the page's trees are the file's trees with only the authors changed:
\* every other field, the number of children and their order are the same at
\* every depth.
C5_OnlyAuthors ==
    Saved =>
        \A b \in Buckets :
           /\ Len(html.comments[b]) = Len(a_case.buckets[b])
           /\ {Skeleton(html.comments[b][i]) : i \in DOMAIN html.comments[b]}
                 = {Skeleton(a_case.buckets[b][i]) : i \in DOMAIN a_case.buckets[b]}

\* a comment whose reply has a reply of its own: anonimise_reply's loop
\* rebinds `reply` and returns the child
C5_Witness ==
    /\ Saved
    /\ \E b \in Buckets : \E i \in DOMAIN html.comments[b] :
          /\ html.comments[b][i].replies # <<>>
          /\ html.comments[b][i].replies[1].replies # <<>>
          /\ html.comments[b][i].replies[1].reply_username = Commenter(1)
          /\ html.comments[b][i].replies[1].replies[1].reply_username = Commenter(2)

-----------------------------------------------------------------------------
(* C6 *)

\* the first place of the username u among the nodes ns
FirstAt(ns, u) == CHOOSE i \in DOMAIN ns :
                     /\ ns[i].author = u
                     /\ \A j \in 1..(i - 1) : ns[j].author # u

\* the number of distinct usernames other than the submission author met up
\* to the first node of u
NumberOf(ns, u) ==
    Cardinality({ns[j].author : j \in 1..FirstAt(ns, u)} \ {a_case.submission_author})

\* C6: in every case the k-th distinct username other than the submission
\* author met in the traversal (buckets in order, each by posted time
\* ascending, each tree in pre-order) is commenter_k, k = 1, 2, 3, ...
C6_Numbering ==
    Saved =>
        LET real == RealSeq
            page == PageSeq
        IN  /\ {x.id : x \in Range(page)} = {x.id : x \in Range(real)}
            /\ \A x \in Range(real) :
                  x.author # a_case.submission_author =>
                     AuthorIn(page, x.id) = Commenter(NumberOf(real, x.author))

\* the sort changes the order of a bucket whose later comment names a new
\* user, so that user is commenter_1 and the other commenter_2
C6_Witness ==
    /\ Saved
    /\ \E b \in Buckets :
          /\ Len(a_case.buckets[b]) = 2
          /\ html.comments[b][1].id = a_case.buckets[b][2].id
          /\ html.comments[b][1].comment_author = Commenter(1)
          /\ html.comments[b][2].comment_author = Commenter(2)

-----------------------------------------------------------------------------
(* C7 *)

Complete(item) == SampleRowFields \subseteq item.present

\* C7: when main has ended, every complete item of the batch has its case
\* file and no item that lacks a field has one.
C7_OnlyThatCaseFails ==
    b_pc \in {"done", "raised"} =>
        \A k \in DOMAIN data :
           Complete(data[k]) <=> \E w \in Range(written) : w.case_id = data[k].case_id

-----------------------------------------------------------------------------
(* C8 *)

\* C8: an update whose title search finds nothing raises no error and gets no
\* row, and once main has ended every other update has its row in the file.
C8_NoMatchSkipped ==
    /\ s_pc = "raised" => updates[s_i].found # <<>>
    /\ s_pc = "written" =>
          \A k \in DOMAIN updates :
             updates[k].found # <<>> <=> \E r \in Range(sample_file) : r.case_id = k

-----------------------------------------------------------------------------
(* C9 *)

\* C9: for a submission with no comments the ratio is 0.0 and no error is
\* raised: main never ends with a division by zero.
C9_EmptyForestRatioZero ==
    /\ s_error # "ZeroDivisionError"
    /\ \A r \in Range(sample) :
          updates[r.case_id].submission.comments = <<>>
             => r.update_author_response_ratio = 0

-----------------------------------------------------------------------------
(* C11 *)

\* the comments of a forest, each once, whatever its depth
CommentsOf(f) == UNION {{<<t, k>> : k \in 0..Len(f[t].rparent)} : t \in 1..Len(f)}

MatchingOf(f, username) ==
    {c \in CommentsOf(f) : Author(f, c) # NoAuthor /\ Author(f, c) = username}

\* C11: the ratio of a row is matching/total to the nearest thousandth, every
\* comment of the forest counting once in total and once in matching when
\* its author is the submission author.
C11_EachCommentOnce ==
    \A r \in Range(sample) :
        LET s == updates[r.case_id].submission
        IN  CommentsOf(s.comments) # {} =>
               Nearest(r.update_author_response_ratio,
                       Cardinality(MatchingOf(s.comments, s.author)),
                       Cardinality(CommentsOf(s.comments)))

-----------------------------------------------------------------------------
(* C12 *)

\* C12: no comment of highestVoted has a descendant by the OP, and every
\* top-level comment with text and a descendant by the OP is in mostEngaged.
C12_BucketsMatchInteraction ==
    Returned =>
        /\ \A i \in DOMAIN top_comments :
              ByOpBelow(ThreadOf(top_comments[i].id)) = 0
        /\ \A t \in Threads :
              Kept(t) /\ ByOpBelow(t) > 0 =>
                 \E i \in DOMAIN engaged_comments :
                    engaged_comments[i].id = <<submission[t].id, 0>>

-----------------------------------------------------------------------------
(* C13 *)

\* C13: in the page of a case no node is without an author; the nodes whose
\* author is absent in the file all carry one alias, the commenter_<n> that
\* was next when the first of them was met; and the counter has moved by one
\* for each username met other than the submission author, absent being one.
C13_AbsentShareAlias ==
    Saved =>
        LET real   == RealSeq
            page   == PageSeq
            absent == {x \in Range(real) : x.author = NoAuthor}
        IN  /\ \A x \in Range(page) : x.author # NoAuthor
            /\ \A x \in absent :
                  AuthorIn(page, x.id) = Commenter(NumberOf(real, NoAuthor))
            /\ counter = 1 + Cardinality({x.author : x \in Range(real)}
                                            \ {a_case.submission_author})

\* two comments of deleted accounts in different buckets, met after bob
C13_Witness ==
    /\ Saved
    /\ \E b1, b2 \in Buckets :
          /\ b1 < b2
          /\ a_case.buckets[b1] # <<>> /\ a_case.buckets[b2] # <<>>
          /\ a_case.buckets[b1][1].comment_author = "bob"
          /\ a_case.buckets[b1][1].replies # <<>>
          /\ a_case.buckets[b1][1].replies[1].reply_username = NoAuthor
          /\ html.comments[b1][1].replies[1].reply_username = Commenter(2)
          /\ a_case.buckets[b2][1].comment_author = NoAuthor
          /\ html.comments[b2][1].comment_author = Commenter(2)
          /\ counter = 3

-----------------------------------------------------------------------------
(* C14 *)

\* the rows of the two buckets
Rows == engaged_comments \o top_comments

\* the replies of a materialized tree, each with the reply it lies under (0:
\* the top-level comment)
RECURSIVE EdgesOf(_, _)
EdgesOf(parent, rs) ==
    UNION {{[id |-> rs[i].id[2], under |-> parent,
             author |-> rs[i].reply_username, text |-> rs[i].text]}
           \cup EdgesOf(rs[i].id[2], rs[i].replies) : i \in DOMAIN rs}

\* at every depth the children are in arrival order
RECURSIVE InArrivalOrder(_)
InArrivalOrder(rs) ==
    /\ \A i, j \in DOMAIN rs : i < j => rs[i].id[2] < rs[j].id[2]
    /\ \A i \in DOMAIN rs : InArrivalOrder(rs[i].replies)

\* the replies below thread t that count as the OP's when a reply with
\* deleted text never does
ByOpWithTextBelow(t) ==
    Cardinality({j \in 1..TotalBelow(t) :
                    /\ submission[t].rauthor[j] # NoAuthor
                    /\ submission[t].rauthor[j] = op
                    /\ submission[t].rbody[j] # DELETED})

\* the materialized tree of every row is the source subtree: the same
\* replies, each once, under the same parent, in arrival order
SameTree ==
    \A i \in DOMAIN Rows :
       LET t == ThreadOf(Rows[i].id)
       IN  /\ EdgesOf(0, Rows[i].replies)
                = {[id |-> j, under |-> submission[t].rparent[j],
                    author |-> submission[t].rauthor[j],
                    text |-> submission[t].rbody[j]] : j \in 1..TotalBelow(t)}
           /\ Len(NodesOfReplies(Rows[i].replies)) = TotalBelow(t)
           /\ InArrivalOrder(Rows[i].replies)

\* C14 as stated: every nested reply counts in the total, none with deleted
\* text or without an author counts as the OP's, and the materialized tree
\* is the source subtree.
C14_ShallowAsStated ==
    Returned =>
        /\ SameTree
        /\ \A i \in DOMAIN Rows :
              LET t == ThreadOf(Rows[i].id)
              IN  IF TotalBelow(t) = 0 THEN Rows[i].OP_response_ratio = 0
                  ELSE Nearest(Rows[i].OP_response_ratio,
                               ByOpWithTextBelow(t), TotalBelow(t))

\* C14 amended: every nested reply counts in the total, whatever its text or
\* author; it counts as the OP's exactly when its author is present and is
\* the OP, whatever its text; and the materialized tree is the source
\* subtree.
C14_Shallow ==
    Returned =>
        /\ SameTree
        /\ \A i \in DOMAIN Rows :
              LET t == ThreadOf(Rows[i].id)
              IN  IF TotalBelow(t) = 0 THEN Rows[i].OP_response_ratio = 0
                  ELSE Nearest(Rows[i].OP_response_ratio,
                               ByOpBelow(t), TotalBelow(t))

\* a reply of a deleted account with deleted text, under a reply, with a
\* reply by the OP below it: it is counted, and it is in the output with its
\* child
C14_Witness ==
    /\ Returned
    /\ submission[1].rparent = <<0, 1, 2>>
    /\ submission[1].rauthor = <<"bob", NoAuthor, "alice">>
    /\ submission[1].rbody[2] = DELETED
    /\ Len(engaged_comments) = 1
    /\ engaged_comments[1].OP_response_ratio = 333
    /\ engaged_comments[1].replies[1].replies[1].text = DELETED
    /\ engaged_comments[1].replies[1].replies[1].replies[1].reply_username = "alice"

-----------------------------------------------------------------------------
(* scripts/3_generate_html.py: the traversal of lines 217-220 followed node *)
(* by node.  The case files: at most MaxWalk comments and replies in the    *)
(* first and the last list; among the usernames are some that read as       *)
(* pseudonyms; the later a comment is in its list the earlier it was        *)
(* posted, so the sort turns every list round.                              *)

WalkAuthors == {"alice", "bob", NoAuthor, "commenter_1", "author_2"}

WalkBuckets == {1, 4}

\* the nodes in the order anonimise_comments meets them: the four lists in
\* turn, each sorted, each tree parent first
Traversal(bs) ==
    NodesOfRows(sort_comments_by_posted_time(bs[1]))
    \o NodesOfRows(sort_comments_by_posted_time(bs[2]))
    \o NodesOfRows(sort_comments_by_posted_time(bs[3]))
    \o NodesOfRows(sort_comments_by_posted_time(bs[4]))

\* an assignment that leaves the counter where it was
assign_alias_counter_kept(username, cm, n) ==
    LET known == username \in DOMAIN cm
    IN  [alias |-> IF known THEN cm[username] ELSE Commenter(n),
         commenters |-> IF known THEN cm ELSE cm @@ (username :> Commenter(n)),
         counter |-> n]

\* lines 116-122 and 141-147: the username is looked up, or stored with the
\* next commenter_<counter>
assign_alias(username, cm, n) ==
    LET known == username \in DOMAIN cm
    IN  [alias |-> IF known THEN cm[username] ELSE Commenter(n),
         commenters |-> IF known THEN cm ELSE cm @@ (username :> Commenter(n)),
         counter |-> IF known THEN n ELSE n + 1]

\* lines 199-215, the traversal about to start
ParseAlias ==
    /\ a_pc = "idle"
    /\ \E n \in 0..MaxWalk, case_id \in CaseIds :
         \E par \in ReplyTrees(n), au \in [1..n -> WalkAuthors] :
            \E inb \in [{i \in 1..n : par[i] = 0} -> WalkBuckets] :
               /\ \A i, j \in DOMAIN inb : i < j => inb[i] <= inb[j]
               /\ a_case' = MkCase(case_id, par, au, inb,
                                   [i \in DOMAIN inb |-> SecPerDay - i])
    /\ commenters' = SeedCommenters(a_case'.submission_author, a_case'.case_id)
    /\ counter' = 1
    /\ a_buckets' = a_case'.buckets
    /\ a_walk' = [todo |-> Traversal(a_case'.buckets),
                  done |-> <<>>,
                  commenters |-> SeedCommenters(a_case'.submission_author,
                                                a_case'.case_id),
                  counter |-> 1]
    /\ a_pc' = "anonimise"
    /\ UNCHANGED html
    /\ UNCHANGED <<selVars, sampVars, batchVars>>

\* lines 116-122 or 141-147 for the next node of the traversal
AnonimiseNode ==
    /\ a_pc = "anonimise"
    /\ a_walk.todo # <<>>
    /\ LET x == Head(a_walk.todo)
           r == assign_alias(x.author, a_walk.commenters, a_walk.counter)
       IN  a_walk' = [todo |-> Tail(a_walk.todo),
                      done |-> Append(a_walk.done,
                                  [id |-> x.id, author |-> x.author, alias |-> r.alias]),
                      commenters |-> r.commenters,
                      counter |-> r.counter]
    /\ UNCHANGED <<a_pc, a_case, commenters, counter, a_buckets, html>>
    /\ UNCHANGED <<selVars, sampVars, batchVars>>

NextAlias == ParseAlias \/ AnonimiseNode \/ AnonimiseComments \/ Render \/ Return

SpecAlias == InitAnon /\ [][NextAlias]_vars

-----------------------------------------------------------------------------
(* C15 *)

Injective(f) == \A u, v \in DOMAIN f : u # v => f[u] # f[v]

\* C15: at every point of the traversal the dict is injective, the counter
\* is 1 more than the number of its entries other than the submission
\* author's, and two nodes met with different usernames (absent being one)
\* have different pseudonyms; the dict and the counter the four calls return
\* are the ones the traversal ends with, and the page carries the pseudonyms
\* given on the way.
C15_Injective ==
    /\ a_pc = "anonimise" =>
          /\ Injective(a_walk.commenters)
          /\ a_walk.counter
                = 1 + Cardinality(DOMAIN a_walk.commenters \ {a_case.submission_author})
          /\ \A x, y \in Range(a_walk.done) :
                x.author # y.author => x.alias # y.alias
    /\ a_pc \in {"render", "saved"} =>
          /\ commenters = a_walk.commenters
          /\ counter = a_walk.counter
          /\ Injective(commenters)
    /\ Saved =>
          LET page == PageSeq
          IN  \A x \in Range(a_walk.done) : AuthorIn(page, x.id) = x.alias

\* bob has been given commenter_1; the user whose name is commenter_1 is
\* given commenter_2 and the user whose name is author_2 commenter_3
C15_Witness ==
    /\ a_pc = "anonimise"
    /\ a_walk.todo = <<>>
    /\ Len(a_walk.done) = 3
    /\ a_walk.done[1].author = "bob" /\ a_walk.done[1].alias = "commenter_1"
    /\ a_walk.done[2].author = "commenter_1" /\ a_walk.done[2].alias = "commenter_2"
    /\ a_walk.done[3].author = "author_2" /\ a_walk.done[3].alias = "commenter_3"
    /\ a_case.buckets[1] # <<>> /\ a_case.buckets[4] # <<>>

-----------------------------------------------------------------------------
(* C16 *)

\* the place of the comment id in the list cs
PlaceIn(cs, id) == CHOOSE i \in DOMAIN cs : cs[i].id = id

\* C16: each list of the page has the top-level comments of the file's list,
\* each once; they are in the order of their posted times, earliest first,
\* and comments posted at the same time are in the order of the file.
C16_ByPostedTime ==
    Saved =>
        \A b \in Buckets :
           LET src == a_case.buckets[b]
               out == html.comments[b]
           IN  /\ Len(out) = Len(src)
               /\ {out[i].id : i \in DOMAIN out} = {src[i].id : i \in DOMAIN src}
               /\ \A i, j \in DOMAIN out : i # j => out[i].id # out[j].id
               /\ \A i, j \in DOMAIN out :
                     i < j =>
                        /\ ~Earlier(out[j].posted, out[i].posted)
                        /\ out[i].posted = out[j].posted
                              => PlaceIn(src, out[i].id) < PlaceIn(src, out[j].id)

\* the first comment of the file's list was posted last, a day after the
\* other two, which were posted at the same time
C16_Witness ==
    /\ Saved
    /\ \E b \in Buckets :
          /\ Len(a_case.buckets[b]) = 3
          /\ a_case.buckets[b][2].posted = a_case.buckets[b][3].posted
          /\ a_case.buckets[b][1].posted.date > a_case.buckets[b][2].posted.date
          /\ html.comments[b][1].id = a_case.buckets[b][2].id
          /\ html.comments[b][2].id = a_case.buckets[b][3].id
          /\ html.comments[b][3].id = a_case.buckets[b][1].id

====
